---- MODULE Spec2Model ----
(***************************************************************************)
(* Phy<D>: an ixy device as a smoltcp phy device (src/src/lib.rs).         *)
(*                                                                         *)
(* A Packet is a record [id, len]: id is the pool entry it owns, len its   *)
(* current length.  The three VecDeque<Packet> of Phy are sequences of     *)
(* packets, front first.  The Mempool and the IxyDevice are the two        *)
(* collaborators of the crate; they are modelled by their contract:        *)
(*   pool    the free entries of the Mempool,                              *)
(*   nic_rx  packets the device has received and not yet handed out,       *)
(*   nic_tx  packets the device has accepted for transmission.             *)
(* Dropping a Packet gives its entry back to the pool.                     *)
(*                                                                         *)
(* A TxToken holds `&'a mut Sender`, a mutable borrow of the Phy: while it *)
(* lives no method of the Phy can be called.  An RxToken borrows nothing.  *)
(***************************************************************************)
EXTENDS Integers, Sequences, FiniteSets, Bags, TLC

\* Number of entries of the Mempool.
NumBufs == 3
\* Phy::BATCH_SIZE.  lib.rs:32 sets 32; the model runs with a scaled value,
\* and every formula below is stated in terms of BATCH_SIZE.
BATCH_SIZE == 2
\* pool.entry_size()
EntrySize == 2

Bufs == 1..NumBufs
\* The `length` arguments of TxToken::consume that are tried.
Lengths == 0..(EntrySize + 1)
\* Lengths of received frames.
RxLens == {1, EntrySize}

VARIABLES
    pool,       \* Mempool: set of free entries
    nic_rx,     \* device: received packets, oldest first
    nic_tx,     \* device: packets accepted by tx_batch, oldest first
    rx_queue,   \* Phy.rx_queue
    tx_empty,   \* Phy.tx_empty
    tx_queue,   \* Phy.tx_queue
    rx_tokens,  \* packets of the live RxTokens, a bag
    tx_token,   \* packet of the live TxToken: <<>> or <<p>>
    panicked,   \* an assert! has failed
    last        \* what the last call did and returned

vars == <<pool, nic_rx, nic_tx, rx_queue, tx_empty, tx_queue,
          rx_tokens, tx_token, panicked, last>>

Packet(b, n) == [id |-> b, len |-> n]

Min(a, b) == IF a <= b THEN a ELSE b

RECURSIVE Ids(_)
Ids(q) == IF q = <<>> THEN <<>> ELSE <<Head(q).id>> \o Ids(Tail(q))

IdSet(q) == {q[i].id : i \in 1..Len(q)}

\* The n lowest entries of the set S, lowest first (all of S when it has
\* fewer than n).
RECURSIVE Lowest(_, _)
Lowest(S, n) ==
    IF n = 0 \/ S = {} THEN <<>>
    ELSE LET b == CHOOSE x \in S : \A y \in S : x <= y IN
         <<b>> \o Lowest(S \ {b}, n - 1)

RECURSIVE Fresh(_)
Fresh(ord) ==
    IF ord = <<>> THEN <<>>
    ELSE <<Packet(Head(ord), EntrySize)>> \o Fresh(Tail(ord))

(***************************************************************************)
(* The Phy together with its pool and device, as one record the methods    *)
(* act on.  calls, offered and accepted record the tx_batch call made      *)
(* during the current method, if any; polls counts its rx_batch calls.     *)
(***************************************************************************)
Self ==
    [pool |-> pool, nic_rx |-> nic_rx, nic_tx |-> nic_tx,
     rx_queue |-> rx_queue, tx_empty |-> tx_empty, tx_queue |-> tx_queue,
     panic |-> FALSE, calls |-> 0, offered |-> <<>>, accepted |-> 0,
     polls |-> 0]

\* impl Drop for Packet: the entry goes back to its pool.
drop(s, p) == [s EXCEPT !.pool = @ \cup {p.id}]

\* IxyDevice::tx_batch(0, &mut tx_queue): the device takes the first k
\* packets off the front of the queue and returns k.
tx_batch(s, k) ==
    [s EXCEPT !.nic_tx = @ \o SubSeq(s.tx_queue, 1, k),
              !.tx_queue = SubSeq(s.tx_queue, k + 1, Len(s.tx_queue)),
              !.calls = @ + 1,
              !.offered = Ids(s.tx_queue),
              !.accepted = k]

\* IxyDevice::rx_batch(0, &mut rx_queue, BATCH_SIZE): the device appends the
\* packets it has, at most BATCH_SIZE, oldest first.
rx_batch(s) ==
    LET n == Min(BATCH_SIZE, Len(s.nic_rx)) IN
    [s EXCEPT !.rx_queue = @ \o SubSeq(s.nic_rx, 1, n),
              !.nic_rx = SubSeq(s.nic_rx, n + 1, Len(s.nic_rx)),
              !.polls = @ + 1]

\* Mempool: the pool hands out its free entries in a fixed order.  No formula
\* below depends on which entry a packet owns, and a free entry carries no
\* state, so the model hands out the lowest free entry first.
alloc(s, n) == Lowest(s.pool, n)

\* memory::alloc_pkt_batch(&pool, &mut tx_empty, BATCH_SIZE, max_size):
\* pushes packets of length max_size on the back, as many as the pool has,
\* at most BATCH_SIZE.
alloc_pkt_batch(s) ==
    LET ord == alloc(s, BATCH_SIZE) IN
    [s EXCEPT !.tx_empty = @ \o Fresh(ord),
              !.pool = @ \ {ord[i] : i \in 1..Len(ord)}]

\* Packet::truncate(length)
truncate(p, length) == [p EXCEPT !.len = Min(@, length)]

\* Mutant of flush: the packets the device did not take are cleared from the
\* queue (and so dropped) instead of being kept for the next flush.
flush_clearing(s, k) ==
    LET s1 == tx_batch(s, k) IN
    [s1 EXCEPT !.tx_queue = <<>>, !.pool = @ \cup IdSet(s1.tx_queue)]

\* Mutant of flush: the queue is offered but nothing is ever handed over.
flush_refused(s, k) == tx_batch(s, 0)

\* Phy::flush
flush(s, k) == tx_batch(s, k)

\* Mutant of rx: the device is polled whether rx_queue is empty or not.
rx_eager(s) ==
    LET s1 == rx_batch(s) IN
    IF s1.rx_queue = <<>>
    THEN [s |-> s1, ret |-> <<>>]
    ELSE [s |-> [s1 EXCEPT !.rx_queue = Tail(@)], ret |-> <<Head(s1.rx_queue)>>]

\* Mutant of rx: pop_back for pop_front.
rx_newest(s) ==
    LET s1 == IF s.rx_queue = <<>> THEN rx_batch(s) ELSE s
        n  == Len(s1.rx_queue) IN
    IF n = 0
    THEN [s |-> s1, ret |-> <<>>]
    ELSE [s |-> [s1 EXCEPT !.rx_queue = SubSeq(@, 1, n - 1)],
          ret |-> <<s1.rx_queue[n]>>]

\* Phy::rx
rx(s) ==
    LET s1 == IF s.rx_queue = <<>> THEN rx_batch(s) ELSE s IN
    IF s1.rx_queue = <<>>
    THEN [s |-> s1, ret |-> <<>>]
    ELSE [s |-> [s1 EXCEPT !.rx_queue = Tail(@)], ret |-> <<Head(s1.rx_queue)>>]

\* Mutant of unrx: push_back for push_front.
unrx_back(s, packet) == [s EXCEPT !.rx_queue = Append(@, packet)]

\* Phy::unrx
unrx(s, packet) == [s EXCEPT !.rx_queue = <<packet>> \o @]

\* Mutant of tx: the packet is read off the back of tx_empty and left there.
tx_peeking(s) ==
    LET s1 == IF s.tx_empty = <<>> THEN alloc_pkt_batch(s) ELSE s
        n  == Len(s1.tx_empty) IN
    IF n = 0
    THEN [s |-> s1, ret |-> <<>>]
    ELSE [s |-> s1, ret |-> <<s1.tx_empty[n]>>]

\* Mutant of tx: when tx_empty stays empty the packet is taken off the back of
\* tx_queue, the other VecDeque<Packet> of the send side.
tx_stealing(s) ==
    LET s1 == IF s.tx_empty = <<>> THEN alloc_pkt_batch(s) ELSE s
        n  == Len(s1.tx_empty)
        m  == Len(s1.tx_queue) IN
    IF n > 0
    THEN [s |-> [s1 EXCEPT !.tx_empty = SubSeq(@, 1, n - 1)],
          ret |-> <<s1.tx_empty[n]>>]
    ELSE IF m > 0
    THEN [s |-> [s1 EXCEPT !.tx_queue = SubSeq(@, 1, m - 1)],
          ret |-> <<s1.tx_queue[m]>>]
    ELSE [s |-> s1, ret |-> <<>>]

\* Phy::tx
tx(s) ==
    LET s1 == IF s.tx_empty = <<>> THEN alloc_pkt_batch(s) ELSE s
        n  == Len(s1.tx_empty) IN
    IF n = 0
    THEN [s |-> s1, ret |-> <<>>]
    ELSE [s |-> [s1 EXCEPT !.tx_empty = SubSeq(@, 1, n - 1)],
          ret |-> <<s1.tx_empty[n]>>]

\* Phy::untx
untx(s, packet) ==
    IF packet.len = EntrySize
    THEN [s EXCEPT !.tx_empty = Append(@, packet)]
    ELSE [drop(s, packet) EXCEPT !.panic = TRUE]

\* Mutant of enqueue: the flush starts one packet late (> for >=).
enqueue_late(s, packet, k) ==
    LET s1 == [s EXCEPT !.tx_queue = Append(@, packet)] IN
    IF Len(s1.tx_queue) > BATCH_SIZE THEN flush(s1, k) ELSE s1

\* Mutant of enqueue: push_front for push_back.
enqueue_front(s, packet, k) ==
    LET s1 == [s EXCEPT !.tx_queue = <<packet>> \o @] IN
    IF Len(s1.tx_queue) >= BATCH_SIZE THEN flush(s1, k) ELSE s1

\* Mutant of enqueue: the send buffer is capped; when it still holds more than
\* BATCH_SIZE packets after the flush, the oldest is dropped.
enqueue_capped(s, packet, k) ==
    LET s1 == [s EXCEPT !.tx_queue = Append(@, packet)]
        s2 == IF Len(s1.tx_queue) >= BATCH_SIZE THEN flush(s1, k) ELSE s1 IN
    IF Len(s2.tx_queue) > BATCH_SIZE
    THEN [drop(s2, Head(s2.tx_queue)) EXCEPT !.tx_queue = Tail(@)]
    ELSE s2

\* <Phy as Sender>::enqueue
enqueue(s, packet, k) ==
    LET s1 == [s EXCEPT !.tx_queue = Append(@, packet)] IN
    IF Len(s1.tx_queue) >= BATCH_SIZE THEN flush(s1, k) ELSE s1

\* <Phy as phy::Device>::receive
receive(s) ==
    LET r == rx(s)
        t == tx(r.s) IN
    CASE r.ret # <<>> /\ t.ret # <<>> -> [s |-> t.s, rx |-> r.ret, tx |-> t.ret]
      [] r.ret # <<>> /\ t.ret = <<>> ->
            [s |-> unrx(t.s, r.ret[1]), rx |-> <<>>, tx |-> <<>>]
      [] r.ret = <<>> /\ t.ret # <<>> ->
            [s |-> untx(t.s, t.ret[1]), rx |-> <<>>, tx |-> <<>>]
      [] OTHER -> [s |-> t.s, rx |-> <<>>, tx |-> <<>>]

\* Mutant of transmit: it flushes the send buffer before it returns.
transmit_flushing(s) ==
    LET t == tx(s) IN [s |-> flush(t.s, Len(t.s.tx_queue)), tx |-> t.ret]

\* <Phy as phy::Device>::transmit
transmit(s) ==
    LET t == tx(s) IN [s |-> t.s, tx |-> t.ret]

\* Mutant of RxToken::consume: the packet is forgotten (mem::forget), not
\* dropped.
rx_consume_forgetting(s, packet) ==
    [s |-> s, view |-> packet.len, len |-> packet.len]

\* Mutant of capabilities: the MTU is read off the packet at the front of the
\* send buffer when there is one.
capabilities_of_packet(s) ==
    [max_transmission_unit |->
         IF s.tx_queue # <<>> THEN s.tx_queue[1].len ELSE EntrySize,
     max_burst_size |-> "None"]

\* <Phy as phy::Device>::capabilities
capabilities(s) ==
    [max_transmission_unit |-> EntrySize, max_burst_size |-> "None"]

\* Mutant of RxToken::consume: the packet read is pushed on the send buffer.
rx_consume_retaining(s, packet) ==
    [s |-> [s EXCEPT !.tx_queue = Append(@, packet)], view |-> packet.len,
     len |-> packet.len]

\* <RxToken as phy::RxToken>::consume: f sees the packet; the token, taken
\* by value, is dropped with its packet when consume returns.
rx_consume(s, packet) ==
    [s |-> drop(s, packet), view |-> packet.len, len |-> packet.len]

\* Mutant of TxToken::consume: no check of length against the packet.
tx_consume_unchecked(s, packet, length, fres, k) ==
    LET p == truncate(packet, length) IN
    IF p.len # length
    THEN [s |-> [drop(s, p) EXCEPT !.panic = TRUE], ret |-> "panic",
          view |-> -1, len |-> p.len]
    ELSE IF fres = "err"
    THEN [s |-> drop(s, p), ret |-> "err", view |-> p.len, len |-> p.len]
    ELSE [s |-> enqueue(s, p, k), ret |-> "ok", view |-> p.len, len |-> p.len]

\* Mutant of TxToken::consume: a packet that fails the check is put back on
\* tx_empty.
tx_consume_recycling(s, packet, length, fres, k) ==
    IF packet.len <= length
    THEN [s |-> [s EXCEPT !.tx_empty = Append(@, packet)], ret |-> "Illegal",
          view |-> -1, len |-> packet.len]
    ELSE LET p == truncate(packet, length) IN
         IF fres = "err"
         THEN [s |-> drop(s, p), ret |-> "err", view |-> p.len, len |-> p.len]
         ELSE [s |-> enqueue(s, p, k), ret |-> "ok", view |-> p.len,
               len |-> p.len]

\* Mutant of TxToken::consume: when f fails the packet is handed back to the
\* free queue with untx.
tx_consume_reusing(s, packet, length, fres, k) ==
    IF packet.len <= length
    THEN [s |-> drop(s, packet), ret |-> "Illegal", view |-> -1,
          len |-> packet.len]
    ELSE LET p == truncate(packet, length) IN
         IF fres = "err"
         THEN [s |-> untx(s, p), ret |-> "err", view |-> p.len, len |-> p.len]
         ELSE [s |-> enqueue(s, p, k), ret |-> "ok", view |-> p.len,
               len |-> p.len]

\* <TxToken as phy::TxToken>::consume.  fres is what f returns ("ok" or
\* "err"), k what the device accepts should enqueue flush.  view is the
\* length of the slice f is given, -1 when f is not called; len is the
\* packet's length when consume is done with it.
tx_consume(s, packet, length, fres, k) ==
    IF packet.len <= length
    THEN [s |-> drop(s, packet), ret |-> "Illegal", view |-> -1,
          len |-> packet.len]
    ELSE LET p == truncate(packet, length) IN
         IF p.len # length
         THEN [s |-> [drop(s, p) EXCEPT !.panic = TRUE], ret |-> "panic",
               view |-> -1, len |-> p.len]
         ELSE IF fres = "err"
         THEN [s |-> drop(s, p), ret |-> "err", view |-> p.len, len |-> p.len]
         ELSE [s |-> enqueue(s, p, k), ret |-> "ok", view |-> p.len,
               len |-> p.len]

(***************************************************************************)
(* The state machine.                                                      *)
(***************************************************************************)
NoCall ==
    [op |-> "new", ret |-> "", sent |-> 0, pkt |-> 0, length |-> 0,
     len_before |-> 0, len_after |-> 0, view |-> -1, calls |-> 0,
     offered |-> <<>>,
     accepted |-> 0, polls |-> 0, retain |-> FALSE, mtu |-> -1, burst |-> ""]

\* Phy::new
Init ==
    /\ pool = Bufs
    /\ nic_rx = <<>>
    /\ nic_tx = <<>>
    /\ rx_queue = <<>>
    /\ tx_empty = <<>>
    /\ tx_queue = <<>>
    /\ rx_tokens = EmptyBag
    /\ tx_token = <<>>
    /\ panicked = FALSE
    /\ last = NoCall

\* The fields of the Phy, its pool and its device after a method.
Store(s) ==
    /\ pool' = s.pool
    /\ nic_rx' = s.nic_rx
    /\ nic_tx' = s.nic_tx
    /\ rx_queue' = s.rx_queue
    /\ tx_empty' = s.tx_empty
    /\ tx_queue' = s.tx_queue
    /\ panicked' = s.panic

Traced(l, s) ==
    [l EXCEPT !.calls = s.calls, !.offered = s.offered,
              !.accepted = s.accepted, !.polls = s.polls]

\* The borrow a TxToken holds on the Phy is over.
Unborrowed == tx_token = <<>> /\ ~panicked

\* The device receives a frame into an entry of the pool.
NicReceive ==
    /\ ~panicked
    /\ pool # {}
    /\ \E n \in RxLens :
         LET b == alloc(Self, 1)[1] IN
         /\ pool' = pool \ {b}
         /\ nic_rx' = Append(nic_rx, Packet(b, n))
    /\ last' = [NoCall EXCEPT !.op = "nic_rx"]
    /\ UNCHANGED <<nic_tx, rx_queue, tx_empty, tx_queue, rx_tokens, tx_token,
                   panicked>>

\* The device has sent its oldest packet and frees the entry.
NicSent ==
    /\ ~panicked
    /\ nic_tx # <<>>
    /\ nic_tx' = Tail(nic_tx)
    /\ pool' = pool \cup {Head(nic_tx).id}
    /\ last' = [NoCall EXCEPT !.op = "nic_tx"]
    /\ UNCHANGED <<nic_rx, rx_queue, tx_empty, tx_queue, rx_tokens, tx_token,
                   panicked>>

Flush ==
    /\ Unborrowed
    /\ \E k \in 0..Len(tx_queue) :
         LET s == flush(Self, k) IN
         /\ Store(s)
         /\ last' = Traced([NoCall EXCEPT !.op = "flush", !.sent = k], s)
    /\ UNCHANGED <<rx_tokens, tx_token>>

Receive ==
    /\ Unborrowed
    /\ LET r == receive(Self) IN
         /\ Store(r.s)
         /\ rx_tokens' = rx_tokens (+) SetToBag({r.rx[i] : i \in 1..Len(r.rx)})
         /\ tx_token' = r.tx
         /\ last' = Traced([NoCall EXCEPT
                               !.op = "receive",
                               !.ret = IF r.tx # <<>> THEN "Some" ELSE "None"],
                           r.s)

Transmit ==
    /\ Unborrowed
    /\ LET r == transmit(Self) IN
         /\ Store(r.s)
         /\ tx_token' = r.tx
         /\ last' = Traced([NoCall EXCEPT
                               !.op = "transmit",
                               !.ret = IF r.tx # <<>> THEN "Some" ELSE "None"],
                           r.s)
    /\ UNCHANGED rx_tokens

\* retain is what the stack wants done with the received buffer once it has
\* read it (re-sent or not).  consume has no parameter for it: f is given
\* `&[u8]` and the token carries nothing but the packet.
RxConsume ==
    /\ ~panicked
    /\ \E p \in BagToSet(rx_tokens), retain \in BOOLEAN :
         LET r == rx_consume(Self, p) IN
         /\ Store(r.s)
         /\ rx_tokens' = rx_tokens (-) SetToBag({p})
         /\ last' = Traced([NoCall EXCEPT
                               !.op = "rx_consume", !.ret = "ok",
                               !.retain = retain,
                               !.pkt = p.id, !.len_before = p.len,
                               !.len_after = r.len, !.view = r.view], r.s)
    /\ UNCHANGED tx_token

\* An RxToken is dropped without being consumed.
RxDrop ==
    /\ ~panicked
    /\ \E p \in BagToSet(rx_tokens) :
         /\ Store(drop(Self, p))
         /\ rx_tokens' = rx_tokens (-) SetToBag({p})
         /\ last' = [NoCall EXCEPT !.op = "rx_drop", !.pkt = p.id,
                                   !.len_before = p.len, !.len_after = p.len]
    /\ UNCHANGED tx_token

TxConsume ==
    /\ ~panicked
    /\ tx_token # <<>>
    /\ \E length \in Lengths, fres \in {"ok", "err"},
          k \in 0..(Len(tx_queue) + 1) :
         LET p == tx_token[1]
             r == tx_consume(Self, p, length, fres, k) IN
         /\ Store(r.s)
         /\ tx_token' = <<>>
         /\ last' = Traced([NoCall EXCEPT
                               !.op = "tx_consume", !.ret = r.ret,
                               !.pkt = p.id, !.length = length,
                               !.len_before = p.len, !.len_after = r.len,
                               !.view = r.view], r.s)
    /\ UNCHANGED rx_tokens

\* A TxToken is dropped without being consumed.
TxDrop ==
    /\ ~panicked
    /\ tx_token # <<>>
    /\ Store(drop(Self, tx_token[1]))
    /\ tx_token' = <<>>
    /\ last' = [NoCall EXCEPT !.op = "tx_drop", !.pkt = tx_token[1].id,
                              !.len_before = tx_token[1].len,
                              !.len_after = tx_token[1].len]
    /\ UNCHANGED rx_tokens

\* capabilities(&self): a shared borrow, so not while a TxToken lives.
Capabilities ==
    /\ Unborrowed
    /\ LET c == capabilities(Self) IN
         last' = [NoCall EXCEPT !.op = "capabilities",
                                !.mtu = c.max_transmission_unit,
                                !.burst = c.max_burst_size]
    /\ UNCHANGED <<pool, nic_rx, nic_tx, rx_queue, tx_empty, tx_queue,
                   rx_tokens, tx_token, panicked>>

Next ==
    \/ NicReceive
    \/ NicSent
    \/ Flush
    \/ Receive
    \/ Transmit
    \/ RxConsume
    \/ RxDrop
    \/ TxConsume
    \/ TxDrop
    \/ Capabilities

Spec == Init /\ [][Next]_vars

(***************************************************************************)
(* Properties.                                                             *)
(***************************************************************************)
RECURSIVE Occurs(_, _)
\* How many packets of the sequence q own entry b.
Occurs(b, q) ==
    IF q = <<>> THEN 0
    ELSE (IF Head(q).id = b THEN 1 ELSE 0) + Occurs(b, Tail(q))

RECURSIVE TokensOn(_, _)
\* How many of the RxTokens whose packets are in the set P own entry b.
TokensOn(b, P) ==
    IF P = {} THEN 0
    ELSE LET p == CHOOSE x \in P : TRUE IN
         (IF p.id = b THEN CopiesIn(p, rx_tokens) ELSE 0)
           + TokensOn(b, P \ {p})

\* In how many places of the bridge (queues and live tokens) entry b is.
Holders(b) ==
    Occurs(b, rx_queue) + Occurs(b, tx_empty) + Occurs(b, tx_queue)
      + Occurs(b, tx_token) + TokensOn(b, BagToSet(rx_tokens))

\* In how many places at all entry b is.
Owners(b) ==
    Holders(b) + (IF b \in pool THEN 1 ELSE 0)
      + Occurs(b, nic_rx) + Occurs(b, nic_tx)

TxConsumed == last.op = "tx_consume"

\* C1. Ownership uniqueness: no buffer identity is in two of rx_queue,
\* tx_empty, tx_queue and the live Rx/Tx tokens, or twice in one of them.
C1_OwnershipUnique == \A b \in Bufs : Holders(b) <= 1

C1_Witness ==
    /\ tx_token # <<>>
    /\ rx_tokens # EmptyBag
    /\ tx_queue # <<>>

\* C2. Flush partial drain: flush() offers the whole ready-queue, returns the
\* count k the driver accepted, removes exactly the first k packets and
\* leaves the others at the front in their order.
C2_FlushPartialDrain ==
    [][last'.op = "flush" =>
         LET k == last'.sent IN
         /\ k \in 0..Len(tx_queue)
         /\ last'.calls = 1
         /\ last'.offered = Ids(tx_queue)
         /\ tx_queue' = SubSeq(tx_queue, k + 1, Len(tx_queue))
         /\ nic_tx' = nic_tx \o SubSeq(tx_queue, 1, k)]_vars

\* [A, B, C] with k = 1 gives [B, C].
C2_Witness ==
    /\ last.op = "flush"
    /\ last.sent = 1
    /\ Len(last.offered) = 3
    /\ Ids(tx_queue) = SubSeq(last.offered, 2, 3)

\* C3. Truncation correctness, as claimed: a Tx consume with a length of at
\* most the buffer's capacity (the capacity included) passes validation, f
\* sees exactly `length` bytes and the packet is `length` long afterwards.
C3_TruncationAsClaimed ==
    TxConsumed /\ last.length <= EntrySize =>
        /\ last.ret # "Illegal"
        /\ last.view = last.length
        /\ last.len_after = last.length

\* C4. Capacity violation: a Tx consume with a length above the capacity
\* returns an error, does not call f, leaves the packet's length as it was
\* and adds nothing to the ready-queue.
C4_CapacityViolation ==
    [][last'.op = "tx_consume" /\ last'.length > EntrySize =>
         /\ last'.ret = "Illegal"
         /\ last'.view = -1
         /\ last'.len_after = last'.len_before
         /\ last'.calls = 0
         /\ tx_queue' = tx_queue
         /\ nic_tx' = nic_tx]_vars

C4_Witness ==
    /\ TxConsumed
    /\ last.length > EntrySize
    /\ last.ret = "Illegal"
    /\ tx_queue # <<>>

\* C5, as claimed: after a Tx consume that fails validation (here with a
\* length above the capacity) the buffer is not in the pool, not in the
\* free-queue, not in the ready-queue, and stays with the token.
C5_FailedTokenKeepsBuffer ==
    [][last'.op = "tx_consume" /\ last'.ret = "Illegal"
         /\ last'.length > EntrySize =>
         /\ last'.pkt \notin pool'
         /\ last'.pkt \notin IdSet(tx_empty')
         /\ last'.pkt \notin IdSet(tx_queue')
         /\ tx_token' = tx_token]_vars

\* C5, amended: after a Tx consume that fails validation the buffer is in
\* neither the free-queue nor the ready-queue, both of which are as before;
\* the token is gone and its buffer is back in the pool.
C5_FailedConsumeReleases ==
    [][last'.op = "tx_consume" /\ last'.ret = "Illegal" =>
         /\ last'.pkt \in pool'
         /\ last'.pkt \notin IdSet(tx_empty')
         /\ last'.pkt \notin IdSet(tx_queue')
         /\ tx_empty' = tx_empty
         /\ tx_queue' = tx_queue
         /\ tx_token' = <<>>]_vars

C5_Witness ==
    /\ TxConsumed
    /\ last.ret = "Illegal"
    /\ last.pkt \in pool
    /\ tx_token = <<>>

\* C6, as claimed: once a Tx consume has passed validation the buffer is in
\* the ready-queue (or already with the driver) when consume returns,
\* whatever f returned.
C6_ValidatedAlwaysEnqueued ==
    [][last'.op = "tx_consume" /\ last'.ret # "Illegal" =>
         last'.pkt \in IdSet(tx_queue') \cup IdSet(nic_tx')]_vars

\* C6, amended: when validation passed and f returned Ok, the packet, now
\* `length` long, is appended at the back of the ready-queue (the flush of
\* that enqueue, if any, takes packets off the front); when f returned an
\* error the ready-queue is as before and the buffer is back in the pool.
C6_EnqueuedUnlessFillFails ==
    [][last'.op = "tx_consume" =>
         LET q == Append(tx_queue, Packet(last'.pkt, last'.length))
             k == last'.accepted IN
         /\ last'.ret = "ok" =>
              /\ tx_queue' = SubSeq(q, k + 1, Len(q))
              /\ nic_tx' = nic_tx \o SubSeq(q, 1, k)
         /\ last'.ret = "err" =>
              /\ tx_queue' = tx_queue
              /\ nic_tx' = nic_tx
              /\ last'.pkt \in pool']_vars

C6_Witness ==
    /\ TxConsumed
    /\ last.ret = "ok"
    /\ Len(tx_queue) >= 2
    /\ tx_queue[Len(tx_queue)].id = last.pkt

\* C7. Size-triggered flush: an enqueue that brings the ready-queue to
\* BATCH_SIZE or more offers the whole queue to the driver; one that leaves
\* it shorter makes no driver call; so the queue holds BATCH_SIZE or more
\* after an enqueue only if the driver refused packets in that flush.
C7_SizeTriggeredFlush ==
    [][last'.op = "tx_consume" /\ last'.ret = "ok" =>
         LET q == Append(Ids(tx_queue), last'.pkt) IN
         /\ Len(q) >= BATCH_SIZE => last'.calls = 1 /\ last'.offered = q
         /\ Len(q) < BATCH_SIZE => last'.calls = 0
         /\ Len(tx_queue') >= BATCH_SIZE =>
              last'.calls = 1 /\ last'.accepted < Len(last'.offered)]_vars

C7_Witness ==
    /\ TxConsumed
    /\ last.ret = "ok"
    /\ last.calls = 1
    /\ Len(last.offered) = BATCH_SIZE
    /\ last.accepted = BATCH_SIZE
    /\ tx_queue = <<>>

C9_ZeroAvailability ==
    [][/\ last'.op = "transmit" /\ tx_empty = <<>> /\ pool = {} =>
            /\ last'.ret = "None"
            /\ tx_token' = <<>>
            /\ ~panicked'
            /\ <<rx_queue', tx_empty', tx_queue'>> = <<rx_queue, tx_empty, tx_queue>>
       /\ last'.op = "receive" /\ rx_queue = <<>> /\ nic_rx = <<>>
            /\ tx_empty = <<>> /\ pool = {} =>
            /\ last'.ret = "None"
            /\ tx_token' = <<>>
            /\ rx_tokens' = rx_tokens
            /\ ~panicked'
            /\ <<rx_queue', tx_empty', tx_queue'>> = <<rx_queue, tx_empty, tx_queue>>]_vars

C9_Witness ==
    /\ last.op = "receive"
    /\ last.ret = "None"
    /\ pool = {}
    /\ tx_empty = <<>>
    /\ rx_queue = <<>>
    /\ nic_rx = <<>>
    /\ tx_queue # <<>>

\* C10. Buffer conservation: every buffer is in exactly one of the pool, the
\* driver, the three queues and the live tokens; the buffer of a token that
\* is dropped, of a consumed Rx token and of a Tx consume that fails is back
\* in the pool afterwards.
C10_OwnedOnce == \A b \in Bufs : Owners(b) = 1

C10_Conservation ==
    /\ []C10_OwnedOnce
    /\ [][\/ last'.op \in {"rx_drop", "tx_drop", "rx_consume"}
          \/ last'.op = "tx_consume" /\ last'.ret \in {"Illegal", "err"}
          => last'.pkt \in pool']_vars

C10_Witness ==
    /\ TxConsumed
    /\ last.ret = "err"
    /\ last.pkt \in pool
    /\ rx_tokens # EmptyBag
    /\ nic_tx # <<>>

\* The entries of the packets of the live RxTokens.
RxTokenIds == {p.id : p \in BagToSet(rx_tokens)}

\* The entries that hold a received frame: with the device, in rx_queue or
\* in an RxToken.
Received == IdSet(nic_rx) \cup IdSet(rx_queue) \cup RxTokenIds

\* C11, as claimed: a received buffer the stack wants retained is in the
\* ready-queue, under its identity, once its exchange is over.
C11_RetainedIsQueued ==
    last.op = "rx_consume" /\ last.retain => last.pkt \in IdSet(tx_queue)

\* C11, amended: a received buffer never enters the ready-queue, retained or
\* not: it stays a received buffer or goes back to the pool, and the
\* consumption of its RxToken gives it back to the pool, leaves the
\* ready-queue as it was and offers nothing to the driver.
C11_ReceivedNeverQueued ==
    [][/\ \A b \in Received : b \in Received' \cup pool'
       /\ last'.op = "rx_consume" =>
            /\ last'.pkt \in pool'
            /\ tx_queue' = tx_queue
            /\ nic_tx' = nic_tx
            /\ last'.calls = 0]_vars

C11_Witness ==
    /\ last.op = "rx_consume"
    /\ last.retain
    /\ last.pkt \in pool
    /\ tx_queue # <<>>

\* C12. capabilities() reports the pool's entry_size as the MTU and no
\* maximum burst size in every state, and changes no queue.
C12_CapabilitiesFixed ==
    [][last'.op = "capabilities" =>
         /\ last'.mtu = EntrySize
         /\ last'.burst = "None"
         /\ UNCHANGED <<pool, nic_rx, nic_tx, rx_queue, tx_empty, tx_queue,
                        rx_tokens, tx_token, panicked>>]_vars

\* Asked with a truncated packet waiting in the send buffer.
C12_Witness ==
    /\ last.op = "capabilities"
    /\ tx_queue # <<>>
    /\ tx_queue[1].len < EntrySize
    /\ nic_tx # <<>>
    /\ rx_queue # <<>>

\* What receive can draw on: a received packet, a free packet.
RxAvailable == rx_queue # <<>> \/ nic_rx # <<>>
TxAvailable == tx_empty # <<>> \/ pool # {}

\* rx_queue and tx_empty as the refill attempts of receive leave them.
RxRefilled ==
    IF rx_queue = <<>>
    THEN SubSeq(nic_rx, 1, Min(BATCH_SIZE, Len(nic_rx)))
    ELSE rx_queue
TxRefilled ==
    IF tx_empty = <<>> THEN Fresh(Lowest(pool, BATCH_SIZE)) ELSE tx_empty

\* The entries the bridge holds in its queues.
Queued == IdSet(rx_queue) \cup IdSet(tx_empty) \cup IdSet(tx_queue)

\* C13. Receive pairing: receive issues a pair iff, after the refills, a
\* received and a free packet are both there: the front of rx_queue and the
\* back of tx_empty.  Otherwise it issues nothing, does not panic, and both
\* queues are as the refills left them (the popped packet is back in its
\* place); no buffer leaves the bridge.
C13_ReceivePairing ==
    [][last'.op = "receive" =>
         /\ last'.ret = "Some" <=> RxAvailable /\ TxAvailable
         /\ last'.ret = "Some" =>
              /\ rx_tokens' = rx_tokens (+) SetToBag({Head(RxRefilled)})
              /\ tx_token' = <<TxRefilled[Len(TxRefilled)]>>
              /\ rx_queue' = Tail(RxRefilled)
              /\ tx_empty' = SubSeq(TxRefilled, 1, Len(TxRefilled) - 1)
         /\ last'.ret = "None" =>
              /\ rx_tokens' = rx_tokens
              /\ tx_token' = <<>>
              /\ rx_queue' = RxRefilled
              /\ tx_empty' = TxRefilled
              /\ ~panicked'
         /\ Queued \subseteq Queued' \cup RxTokenIds' \cup IdSet(tx_token')
         /\ tx_queue' = tx_queue
         /\ nic_tx' = nic_tx]_vars

\* A failed receive that polled two packets and put the first one back.
C13_Witness ==
    /\ last.op = "receive"
    /\ last.ret = "None"
    /\ last.polls = 1
    /\ Len(rx_queue) >= 2
    /\ tx_empty = <<>>

\* The received packets not yet handed to the stack, oldest first.
Pending == rx_queue \o nic_rx

\* C14. Receive order: the packet of an issued RxToken is the oldest pending
\* one; a failed receive leaves the pending packets as they were; the driver
\* is polled only by a receive that finds rx_queue empty; nothing else
\* touches the pending packets but the device appending a new one.
C14_ReceiveOrder ==
    [][/\ last'.op = "receive" /\ last'.ret = "Some" =>
            /\ Pending # <<>>
            /\ rx_tokens' = rx_tokens (+) SetToBag({Head(Pending)})
            /\ Pending' = Tail(Pending)
       /\ last'.op = "receive" /\ last'.ret = "None" => Pending' = Pending
       /\ last'.op = "receive" =>
            last'.polls = (IF rx_queue = <<>> THEN 1 ELSE 0)
       /\ last'.op = "nic_rx" =>
            /\ Len(Pending') = Len(Pending) + 1
            /\ SubSeq(Pending', 1, Len(Pending)) = Pending
       /\ last'.op \notin {"receive", "nic_rx"} =>
            Pending' = Pending /\ last'.polls = 0]_vars

\* A packet is delivered from rx_queue, without a poll, while the device
\* holds a later one.
C14_Witness ==
    /\ last.op = "receive"
    /\ last.ret = "Some"
    /\ last.polls = 0
    /\ nic_rx # <<>>

\* The entries of the packets on their way out: accepted by the device and
\* not yet sent, then waiting in the send buffer.
Outgoing == Ids(nic_tx) \o Ids(tx_queue)

\* C15. Transmit order: a successful Tx consume puts its packet at the end
\* of the outgoing sequence, the device takes packets only off the front of
\* the send buffer, in order, and nothing else changes the outgoing
\* sequence: what the device has accepted is always a prefix of what was
\* consumed, in the order of the consumes.
C15_TransmitOrder ==
    [][/\ last'.op = "tx_consume" /\ last'.ret = "ok" =>
            Outgoing' = Append(Outgoing, last'.pkt)
       /\ last'.op = "nic_tx" => Outgoing' = Tail(Outgoing)
       /\ last'.op # "nic_tx"
            /\ ~(last'.op = "tx_consume" /\ last'.ret = "ok") =>
            Outgoing' = Outgoing
       /\ last'.op # "nic_tx" =>
            /\ Len(nic_tx') = Len(nic_tx) + last'.accepted
            /\ SubSeq(nic_tx', 1, Len(nic_tx)) = nic_tx]_vars

\* A size-triggered flush of two packets of which the device takes one.
C15_Witness ==
    /\ TxConsumed
    /\ last.ret = "ok"
    /\ Len(last.offered) = 2
    /\ last.accepted = 1
    /\ Ids(tx_queue) = <<last.pkt>>
    /\ nic_tx # <<>>

\* C17. The bridge never drops a packet from the send buffer: a packet in it
\* stays, or is accepted by the device in a tx_batch call of that step; the
\* buffer shrinks by what the device accepted and by nothing else; and a
\* Tx consume whose flush the device refuses (or that does not flush)
\* makes it one longer, whatever its length already is.
C17_NeverDropped ==
    [][/\ \A b \in IdSet(tx_queue) :
            \/ b \in IdSet(tx_queue')
            \/ b \in IdSet(nic_tx') /\ last'.calls = 1 /\ last'.accepted > 0
       /\ last'.op # "tx_consume" =>
            Len(tx_queue') = Len(tx_queue) - last'.accepted
       /\ last'.op = "tx_consume" /\ last'.ret = "ok" =>
            Len(tx_queue') = Len(tx_queue) + 1 - last'.accepted
       /\ last'.op = "tx_consume" /\ last'.ret # "ok" =>
            tx_queue' = tx_queue]_vars

\* The device refuses again and the send buffer is longer than BATCH_SIZE.
C17_Witness ==
    /\ TxConsumed
    /\ last.ret = "ok"
    /\ last.calls = 1
    /\ last.accepted = 0
    /\ Len(tx_queue) > BATCH_SIZE

\* Every packet there is, wherever it is.
AllPackets ==
    {nic_rx[i] : i \in 1..Len(nic_rx)} \cup {nic_tx[i] : i \in 1..Len(nic_tx)}
      \cup {rx_queue[i] : i \in 1..Len(rx_queue)}
      \cup {tx_empty[i] : i \in 1..Len(tx_empty)}
      \cup {tx_queue[i] : i \in 1..Len(tx_queue)}
      \cup {tx_token[i] : i \in 1..Len(tx_token)}
      \cup BagToSet(rx_tokens)

\* C18. The assertions never fail: no call panics; every packet of the free
\* queue (and of a Tx token) is entry_size long; after the truncation in Tx
\* consume the packet is `length` long; no packet is longer than entry_size.
C18_AssertionsHold ==
    /\ ~panicked
    /\ last.ret # "panic"
    /\ \A i \in 1..Len(tx_empty) : tx_empty[i].len = EntrySize
    /\ \A i \in 1..Len(tx_token) : tx_token[i].len = EntrySize
    /\ \A p \in AllPackets : p.len <= EntrySize
    /\ TxConsumed /\ last.ret \in {"ok", "err"} =>
         last.len_after = last.length /\ last.view = last.length

\* receive has just put a free packet back with untx while a truncated packet
\* waits in the send buffer.
C18_Witness ==
    /\ last.op = "receive"
    /\ last.ret = "None"
    /\ rx_queue = <<>>
    /\ tx_empty # <<>>
    /\ tx_queue # <<>>
    /\ tx_queue[1].len < EntrySize

\* C19. rx_queue and tx_empty never hold more than BATCH_SIZE packets.
C19_QueuesBounded ==
    /\ Len(rx_queue) <= BATCH_SIZE
    /\ Len(tx_empty) <= BATCH_SIZE

\* rx_queue is full after a put-back and the device holds more.
C19_Witness ==
    /\ Len(rx_queue) = BATCH_SIZE
    /\ nic_rx # <<>>
    /\ last.op = "receive"

\* The polling loop of the examples under the conditions of the flush doc
\* comment: a Tx token is consumed or dropped within the iteration that got
\* it, flush is called in every iteration, and a device that is offered a
\* non-empty send buffer again and again eventually takes a packet.  A flush
\* that hands nothing over leaves the state as it is, so the two conditions
\* on flush are one strong fairness condition on the flush that hands over.
LiveSpec ==
    /\ Spec
    /\ WF_vars(TxConsume \/ TxDrop)
    /\ SF_vars(Flush /\ last'.accepted >= 1)

\* C16. Liveness of the send buffer: with flush called in every iteration
\* and a device that eventually accepts, every packet in the send buffer is
\* eventually accepted by the device; and a step that is not a flush and
\* leaves fewer than BATCH_SIZE packets queued makes no driver call and keeps
\* every queued packet, so without flush calls a packet stays for ever.
C16_EventuallyAccepted ==
    /\ \A b \in Bufs : (b \in IdSet(tx_queue)) ~> (b \in IdSet(nic_tx))
    /\ [][last'.op # "flush"
            /\ Len(tx_queue) + (IF last'.op = "tx_consume" THEN 1 ELSE 0)
                 < BATCH_SIZE =>
            /\ last'.calls = 0
            /\ SubSeq(tx_queue', 1, Len(tx_queue)) = tx_queue]_vars

\* A lone packet, queued without a driver call, is accepted in a flush.
C16_Witness ==
    /\ last.op = "flush"
    /\ Len(last.offered) = 1
    /\ last.accepted = 1
    /\ tx_queue = <<>>
    /\ Ids(nic_tx) = last.offered

====
